---- MODULE Spec2Model ----
(***************************************************************************)
(* Model of the payroll-progression extractor: app.py (the dual-output     *)
(* variant, files "Progressão por Mérito UFGD/HU.xlsx") and texte.py (the  *)
(* single-output variant, "resultado_progressao.xlsx").                    *)
(*                                                                         *)
(* Numbers are the floats of the source as scaled integers (1.0 is Scale), *)
(* so that 0.0049 and 0.005 are distinct integers.  A text is a sequence   *)
(* of one-character strings; the non-breaking space is the token "NBSP".   *)
(***************************************************************************)
EXTENDS Integers, Sequences, FiniteSets, TLC

\* ------------------------------------------------------------------------
\* Cell values held by a DataFrame read with header=None
\* ------------------------------------------------------------------------

\* Python None: what get_cell returns for a cell outside the grid.
None == [k |-> "none"]

\* float NaN: what the header-less reader stores for an empty cell.
NaN == [k |-> "nan"]

\* A raised exception travelling as a value until something catches it.
Raise(type) == [k |-> "exc", type |-> type]

ValueError == Raise("ValueError")

IndexError == Raise("IndexError")

IsExc(x) == x.k = "exc"

Num(n) == [k |-> "num", v |-> n]

Text(s) == [k |-> "text", s |-> s]

\* Number of decimal digits the scaled integers keep.
FracDigits == 4

RECURSIVE Pow10(_)
Pow10(n) == IF n = 0 THEN 1 ELSE 10 * Pow10(n - 1)

\* 1.0 as a scaled integer.
Scale == Pow10(FracDigits)

\* The float written units.frac with `places` decimal digits, e.g.
\* Dec(12, 345, 3) is 12.345 and Dec(0, 49, 4) is 0.0049.
Dec(units, frac, places) == units * Scale + frac * Pow10(FracDigits - places)

\* ------------------------------------------------------------------------
\* Python str methods, on sequences of characters
\* ------------------------------------------------------------------------

IsSpace(c) == c \in {" ", "NBSP"}

RECURSIVE lstrip(_)
lstrip(s) ==
    IF s = <<>> THEN <<>>
    ELSE IF IsSpace(Head(s)) THEN lstrip(Tail(s)) ELSE s

RECURSIVE rstrip(_)
rstrip(s) ==
    IF s = <<>> THEN <<>>
    ELSE IF IsSpace(s[Len(s)]) THEN rstrip(SubSeq(s, 1, Len(s) - 1)) ELSE s

strip(s) == rstrip(lstrip(s))

LowerChar(c) ==
    CASE c = "A" -> "a" [] c = "B" -> "b" [] c = "E" -> "e"
      [] c = "N" -> "n" [] c = "O" -> "o" [] c = "R" -> "r"
      [] OTHER -> c

lower(s) == [i \in 1..Len(s) |-> LowerChar(s[i])]

\* s starts with the non-empty sequence old
StartsWith(s, old) ==
    Len(s) >= Len(old) /\ SubSeq(s, 1, Len(old)) = old

\* str.replace(old, new): leftmost non-overlapping occurrences, one pass.
RECURSIVE replace(_, _, _)
replace(s, old, new) ==
    IF s = <<>> THEN <<>>
    ELSE IF StartsWith(s, old)
         THEN new \o replace(SubSeq(s, Len(old) + 1, Len(s)), old, new)
         ELSE <<Head(s)>> \o replace(Tail(s), old, new)

Digits == {"0", "1", "2", "3", "4", "5", "6", "7", "8", "9"}

DigitVal(c) ==
    CASE c = "0" -> 0 [] c = "1" -> 1 [] c = "2" -> 2 [] c = "3" -> 3
      [] c = "4" -> 4 [] c = "5" -> 5 [] c = "6" -> 6 [] c = "7" -> 7
      [] c = "8" -> 8 [] c = "9" -> 9

\* re.sub(r"[^0-9\.\-]", "", s): keeps every digit, "." and "-".
re_sub_keep(s) == SelectSeq(s, LAMBDA c : c \in Digits \cup {".", "-"})

RECURSIVE DigitsVal(_)
DigitsVal(s) ==
    IF s = <<>> THEN 0 ELSE DigitsVal(SubSeq(s, 1, Len(s) - 1)) * 10 + DigitVal(s[Len(s)])

IndexOf(s, c) ==
    IF \E i \in 1..Len(s) : s[i] = c
    THEN CHOOSE i \in 1..Len(s) : s[i] = c /\ \A j \in 1..(i - 1) : s[j] # c
    ELSE 0

\* The float of the digits ip before and fp after the decimal point;
\* ValueError when there is no digit at all.
decimal_value(ip, fp) ==
    IF \/ \E i \in 1..Len(ip) : ip[i] \notin Digits
       \/ \E i \in 1..Len(fp) : fp[i] \notin Digits
       \/ Len(ip) + Len(fp) = 0
       \/ Len(fp) > FracDigits
    THEN ValueError
    ELSE Num(DigitsVal(ip) * Scale + DigitsVal(fp) * Pow10(FracDigits - Len(fp)))

\* s split at its first ".", at position dot (0 when there is none)
split_at(s, dot) ==
    IF dot = 0 THEN decimal_value(s, <<>>)
    ELSE decimal_value(SubSeq(s, 1, dot - 1), SubSeq(s, dot + 1, Len(s)))

\* float(s) for an unsigned decimal literal: digits and at most one ".".
UnsignedFloat(s) == split_at(s, IndexOf(s, "."))

negate(u) == IF IsExc(u) THEN u ELSE Num(0 - u.v)

\* float(s) on a string of digits, "." and "-": an optional sign, then the
\* unsigned literal.  Any other shape raises ValueError.
pyfloat(s) ==
    IF s # <<>> /\ Head(s) = "-" THEN negate(UnsignedFloat(Tail(s)))
    ELSE UnsignedFloat(s)

\* ------------------------------------------------------------------------
\* app.py: cell addressing and number parsing (texte.py holds the same code)
\* ------------------------------------------------------------------------

Letters ==
    <<"A", "B", "C", "D", "E", "F", "G", "H", "I", "J", "K", "L", "M",
      "N", "O", "P", "Q", "R", "S", "T", "U", "V", "W", "X", "Y", "Z">>

LowerLetters ==
    <<"a", "b", "c", "d", "e", "f", "g", "h", "i", "j", "k", "l", "m",
      "n", "o", "p", "q", "r", "s", "t", "u", "v", "w", "x", "y", "z">>

\* str.upper() on one character
UpperChar(c) ==
    LET i == IndexOf(LowerLetters, c) IN IF i = 0 THEN c ELSE Letters[i]

\* ord(ch) - ord('A') + 1 for 'A' <= ch <= 'Z', 0 for any other character
LetterRank(ch) == IndexOf(Letters, ch)

RECURSIVE col_loop(_, _)
col_loop(col, idx) ==
    IF col = <<>> THEN idx
    ELSE IF LetterRank(Head(col)) = 0 THEN -1
         ELSE col_loop(Tail(col), idx * 26 + LetterRank(Head(col)))

Index(n) == [k |-> "index", v |-> n]

\* str.upper()
upper(s) == [i \in 1..Len(s) |-> UpperChar(s[i])]

\* return idx - 1, or the ValueError raised in the loop
index_or_error(n) == IF n = -1 THEN ValueError ELSE Index(n - 1)

\* col_to_index: the 0-based column index, or ValueError.
col_to_index(col) == index_or_error(col_loop(upper(strip(col)), 0))

\* ------------------------------------------------------------------------
\* Input spreadsheets
\* ------------------------------------------------------------------------

\* A sheet is its extent (what the reader's grid holds: it ends at the last
\* populated row and column) and the kind that says what its cells store.

\* 0-based index of a column letter
ColIndex(letter) == col_to_index(<<letter>>).v

colA == ColIndex("A")
colB == ColIndex("B")
colC == ColIndex("C")
colJ == ColIndex("J")
colN == ColIndex("N")
colS == ColIndex("S")

Jane == Text(<<"J", "a", "n", "e">>)
Doe == Text(<<"D", "o", "e">>)
Spaces == Text(<<" ", " ">>)
NbspSpace == Text(<<"NBSP", " ">>)

\* The shared metadata cells C5, C6, C9 and C10 (row is 1-based).
MetaCell(row, c) ==
    IF c # colC THEN NaN
    ELSE CASE row = 5  -> Text(<<"2", "0", "2", "5", "-", "0", "1">>)
           [] row = 6  -> Text(<<"S", "E", "Q", "1">>)
           [] row = 9  -> Text(<<"j", "u", "s", "t", "i", "f">>)
           [] row = 10 -> Text(<<"d", "o", "c", "1">>)
           [] OTHER    -> NaN

\* The sheet of the end-to-end scenario: J13 = "100,00", N13 = "0,00", no
\* column S.
ScenarioCell(row, c) ==
    IF row # 13 THEN MetaCell(row, c)
    ELSE CASE c = colA -> Jane
           [] c = colB -> Doe
           [] c = colJ -> Text(<<"1", "0", "0", ",", "0", "0">>)
           [] c = colN -> Text(<<"0", ",", "0", "0">>)
           [] OTHER    -> NaN

\* Identity cells <<A, B>> a data row may hold.
IdOpts ==
    << <<NaN, NaN>>, <<Jane, NaN>>, <<Spaces, NaN>>, <<NaN, Doe>>,
       <<Jane, Doe>>, <<Spaces, NbspSpace>> >>

\* Value cells <<J, N, S>> a data row may hold.
ValOpts ==
    << <<Num(Dec(100, 0, 0)), NaN, NaN>>,
       <<NaN, NaN, NaN>>,
       <<Num(0 - Dec(12, 345, 3)), Num(Dec(0, 4, 3)), NaN>>,
       <<Num(0), Text(<<"0", ",", "0", "0">>), Text(<<"a", "b", "c">>)>>,
       <<Text(<<"1", ".", "2", "3", "4", ",", "5", "6">>),
         Text(<<"R", "$", " ", "5", "0", ",", "0", "0">>),
         Text(<<"-", "1", "0", ",", "5">>)>>,
       <<NaN, Num(Dec(0, 5, 3)), Num(0 - Dec(0, 49, 4))>>,
       <<Num(Dec(7, 5, 1)), Text(<<"n", "a", "n">>), Text(<<"-", "1", "0", ",", "5">>)>>,
       <<Spaces, Text(<<"1", "0", "-", "5">>), Num(Dec(250, 0, 0))>> >>

\* A densely populated sheet: from row 11 on, row r holds the (r mod 6)-th
\* identity pair and the ((r div 6) mod 8)-th value triple, so that rows
\* 13..63 hold every combination of the two, and the rows outside the two
\* scanned ranges hold data too.
DenseCell(row, c) ==
    LET id == IdOpts[(row % Len(IdOpts)) + 1]
        vs == ValOpts[((row \div Len(IdOpts)) % Len(ValOpts)) + 1]
    IN  IF row < 11 THEN MetaCell(row, c)
        ELSE CASE c = colA -> id[1]
               [] c = colB -> id[2]
               [] c = colJ -> vs[1]
               [] c = colN -> vs[2]
               [] c = colS -> vs[3]
               [] OTHER    -> NaN

\* "scenario": 13 rows, columns A..N.  "dense": 124 rows, columns A..S.
\* "short": the dense sheet cut at row 80 and column L, so that N, S and
\* the rows from 81 on are outside the grid.  "empty": no cell at all.
SheetKinds == {"scenario", "dense", "short", "empty"}

SheetGrid(kind) ==
    CASE kind = "scenario" -> [rows |-> 13,  cols |-> 14, kind |-> kind]
      [] kind = "dense"    -> [rows |-> 124, cols |-> 19, kind |-> kind]
      [] kind = "short"    -> [rows |-> 80,  cols |-> 12, kind |-> kind]
      [] kind = "empty"    -> [rows |-> 0,   cols |-> 0,  kind |-> kind]

\* What the grid stores at 0-based (r, c), NaN when the cell is empty.
Stored(df, r, c) ==
    IF df.kind = "scenario" THEN ScenarioCell(r + 1, c) ELSE DenseCell(r + 1, c)

\* df.iat[r, c]: the stored cell, NaN for a cell of the grid that holds
\* nothing, IndexError outside the grid; a negative index counts from the end.
iat(df, r, c) ==
    LET rr == IF r < 0 THEN r + df.rows ELSE r
        cc == IF c < 0 THEN c + df.cols ELSE c
    IN  IF 0 <= rr /\ rr < df.rows /\ 0 <= cc /\ cc < df.cols
        THEN Stored(df, rr, cc)
        ELSE IndexError

\* df.iat[r, c] with c the result of col_to_index
iat_col(df, r, c) == IF IsExc(c) THEN c ELSE iat(df, r, c.v)

\* try: return ... except Exception: return None
except_none(v) == IF IsExc(v) THEN None ELSE v

\* get_cell without the try around df.iat
get_cell_uncaught(df, col_letter, row_number) ==
    iat_col(df, row_number - 1, col_to_index(col_letter))

\* get_cell: the ValueError of col_to_index is raised before the try; the
\* IndexError of df.iat is caught and None returned.
get_cell(df, col_letter, row_number) ==
    IF IsExc(col_to_index(col_letter)) THEN col_to_index(col_letter)
    ELSE except_none(iat_col(df, row_number - 1, col_to_index(col_letter)))

\* str(x) of a cell value.  Only not_blank and the text branch of the
\* parser read it; a number's digits are not needed by either.
str(x) ==
    CASE x.k = "none" -> <<"N", "o", "n", "e">>
      [] x.k = "nan"  -> <<"n", "a", "n">>
      [] x.k = "text" -> x.s
      [] x.k = "num"  -> <<"0", ".", "0">>

\* The replace chain of parse_br_number, as <<old, new>> pairs in order.
Replacements ==
    << <<<<"R", "$">>, <<>>>>, <<<<"r", "$">>, <<>>>>, <<<<" ">>, <<>>>>,
       <<<<"NBSP">>, <<>>>>, <<<<"%">>, <<>>>>, <<<<".">>, <<>>>>,
       <<<<",">>, <<".">>>> >>

RECURSIVE replace_all(_, _)
replace_all(s, i) ==
    IF i > Len(Replacements) THEN s
    ELSE replace_all(replace(s, Replacements[i][1], Replacements[i][2]), i + 1)

\* The literals parse_br_number takes for absent
nan_none == {<<"n", "a", "n">>, <<"n", "o", "n", "e">>}

\* parse_br_number on the stripped text s: absent, or the float of what
\* the replaces and the re.sub leave; a ValueError of float() is caught.
parse_stripped(s) ==
    IF s = <<>> \/ lower(s) \in nan_none THEN None
    ELSE except_none(pyfloat(re_sub_keep(replace_all(s, 1))))

parse_text(v) == parse_stripped(strip(str(v)))

\* parse_br_number: None, NaN or Num.  An int or float passes through
\* float(); NaN is a float.
parse_br_number(v) ==
    CASE v.k = "none" -> None
      [] v.k \in {"num", "nan"} -> v
      [] v.k = "text" -> parse_text(v)
      [] OTHER -> v

not_blank(x) == x # None /\ strip(str(x)) # <<>>

Abs(n) == IF n < 0 THEN 0 - n ELSE n

\* The floats x.xx5 of the model's inputs whose binary value lies above the
\* decimal tie, as thousandths: round(0.005, 2) = 0.01, round(12.345, 2) =
\* 12.35 in CPython.  Every other x.xx5 here rounds down (0.015 -> 0.01).
TiesAbove == {5, 12345}

\* round(x, 2) for x >= 0
round2(x) ==
    LET cent == Scale \div 100
        q    == x \div cent
        rem  == x % cent
    IN  IF 2 * rem > cent THEN (q + 1) * cent
        ELSE IF 2 * rem < cent THEN q * cent
        ELSE IF \E t \in TiesAbove : x = Dec(0, t, 3) THEN (q + 1) * cent
        ELSE q * cent

\* val if val >= 0 else None
nonnegative_or_none(val) == IF val >= 0 THEN Num(val) ELSE None

\* val if val > 0 else None
positive_or_none(val) == IF val > 0 THEN Num(val) ELSE None

\* to_amount after the parse: round(abs(nan), 2) > 0 is False.
amount_of(f) ==
    IF f = None \/ IsExc(f) THEN f
    ELSE IF f = NaN THEN None
    ELSE positive_or_none(round2(Abs(f.v)))

\* to_amount: None, or Num of a positive multiple of 0.01.
to_amount(v) == amount_of(parse_br_number(v))

\* ------------------------------------------------------------------------
\* app.py: the Row Evaluator
\* ------------------------------------------------------------------------

Record(a, b, mes_ano, seq, num, just, doc) ==
    [A13 |-> a, B13 |-> b, MES_ANO |-> mes_ano, rubrica |-> "00001",
     rendimento |-> "r", sequencia |-> seq, valor |-> num,
     justificativa |-> just, documento_legal |-> doc]

\* Where append_rows_for reads each cell: <<column, row>>, row 0 standing
\* for the data row.
CellPlaces ==
    [a |-> <<"A", 0>>, b |-> <<"B", 0>>, mes_ano |-> <<"C", 5>>,
     seq |-> <<"C", 6>>, just |-> <<"C", 9>>, doc |-> <<"C", 10>>,
     J |-> <<"J", 0>>, N |-> <<"N", 0>>, S |-> <<"S", 0>>]

\* The cells append_rows_for reads for one row.
RowCells(df, rownum) ==
    [f \in DOMAIN CellPlaces |->
        get_cell(df, <<CellPlaces[f][1]>>,
                 IF CellPlaces[f][2] = 0 THEN rownum ELSE CellPlaces[f][2])]

\* A cell read of append_rows_for (or of texte.py's process_sheet) lets an
\* exception out.
cells_raise(c) == \E f \in DOMAIN c : IsExc(c[f])

row_raises(df, rownum) == cells_raise(RowCells(df, rownum))

\* The dict vals of append_rows_for, in insertion order
ValueColumns == <<"J", "N", "S">>

amounts(c) == [i \in 1..Len(ValueColumns) |-> to_amount(c[ValueColumns[i]])]

\* any(v is not None for v in vals.values())
has_amount(vals) == \E i \in 1..Len(vals) : vals[i] # None

\* not_blank(a) or not_blank(b)
has_identity(c) == \E f \in {"a", "b"} : not_blank(c[f])

\* One record per amount of new, in order
records_for(c, new) ==
    [i \in 1..Len(new) |->
        Record(c.a, c.b, c.mes_ano, c.seq, new[i], c.just, c.doc)]

\* append_amounts with a return after the first out.append
append_first_amount(out, c, vals) ==
    IF ~ (has_amount(vals) /\ has_identity(c)) THEN out
    ELSE out \o SubSeq(records_for(c, SelectSeq(vals, LAMBDA v : v # None)), 1, 1)

\* The rest of append_rows_for once the cells c are read and vals computed
append_amounts(out, c, vals) ==
    IF ~ (has_amount(vals) /\ has_identity(c)) THEN out
    ELSE out \o records_for(c, SelectSeq(vals, LAMBDA v : v # None))

append_cells(out, c) == append_amounts(out, c, amounts(c))

\* append_rows_for: the output list after the call, when no read raises
\* (row_raises).
append_rows_for(df, out, rownum) == append_cells(out, RowCells(df, rownum))

\* ------------------------------------------------------------------------
\* texte.py: the single-output variant's sheet processing (row 13, J and N)
\* ------------------------------------------------------------------------

\* abs(float(x)) of a parsed value; abs(nan) is nan.
AbsValue(f) == IF f = NaN THEN NaN ELSE Num(Abs(f.v))

\* The parsed J13 and N13 that texte.py's process_sheet keeps: not None
\* and != 0 (nan != 0 holds).
texte_kept(c) ==
    SelectSeq([i \in 1..2 |-> parse_br_number(c[ValueColumns[i]])],
              LAMBDA f : f # None /\ f # Num(0))

texte_rows(c, kept) ==
    [i \in 1..Len(kept) |->
        Record(c.a, c.b, c.mes_ano, c.seq, AbsValue(kept[i]), c.just, c.doc)]

texte_cells(c) == texte_rows(c, texte_kept(c))

\* texte.py's process_sheet: a row for J13, then a row for N13.
texte_process_sheet(df) == texte_cells(RowCells(df, 13))

\* ------------------------------------------------------------------------
\* Bounds of the model
\* ------------------------------------------------------------------------

\* Sheets a workbook holds at most.
MaxSheets == 2

\* File selections in one session at most.
MaxSelects == 2

\* Clicks on "Processar" (single-output variant) in one session at most.
MaxClicks == 2

\* ------------------------------------------------------------------------
\* Program constants
\* ------------------------------------------------------------------------

\* range(13, 64) and range(71, 122)
UfgdFirst == 13
UfgdLast == 63
HuFirst == 71
HuLast == 121

\* ------------------------------------------------------------------------
\* The files a user may pick.  A path is modelled by what it names: no
\* file, a file the odf reader cannot parse, or a workbook (its sheets in
\* file order; sheet i is named i).
\* ------------------------------------------------------------------------

Workbooks == UNION {[1..n -> SheetKinds] : n \in 1..MaxSheets}

Files ==
    {[kind |-> "missing", sheets |-> <<>>], [kind |-> "corrupt", sheets |-> <<>>]}
    \cup {[kind |-> "ods", sheets |-> w] : w \in Workbooks}

NoPath == [kind |-> "unset", sheets |-> <<>>]

\* os.path.exists(file_path)
path_exists(p) == p.kind # "missing"

\* pd.ExcelFile(file_path, engine="odf") parses the file
reader_opens(p) == p.kind = "ods"

\* pd.read_excel(file_path, sheet_name=name, header=None, engine="odf")
read_excel(p, name) == SheetGrid(p.sheets[name])

\* ------------------------------------------------------------------------
\* app.py: the Sheet Processor
\* ------------------------------------------------------------------------

\* The rows process_sheet_dual scans for each list.
ufgd_rows == UfgdFirst..UfgdLast

hu_rows == HuFirst..HuLast

Min(S) == CHOOSE x \in S : \A y \in S : x <= y

\* "for r in rows: append_rows_for(df, out, r)", rows taken in ascending
\* order.
RECURSIVE scan_rows(_, _, _)
scan_rows(df, out, rows) ==
    IF rows = {} THEN out
    ELSE LET grown == append_rows_for(df, out, Min(rows))
         IN  IF Len(grown) >= Len(out)
             THEN scan_rows(df, grown, rows \ {Min(rows)})
             ELSE out

\* For each record of scan_rows(df, <<>>, rows), the row whose turn of the
\* loop appended it.
RECURSIVE scan_places(_, _)
scan_places(df, rows) ==
    IF rows = {} THEN <<>>
    ELSE [i \in 1..Len(append_rows_for(df, <<>>, Min(rows))) |-> Min(rows)]
         \o scan_places(df, rows \ {Min(rows)})

\* process_sheet_dual: (linhas_ufgd, linhas_hu)
process_sheet_dual(df) ==
    [ufgd |-> scan_rows(df, <<>>, ufgd_rows), hu |-> scan_rows(df, <<>>, hu_rows)]

\* app.py's process_sheet: one list over both ranges
process_sheet(df) == scan_rows(df, scan_rows(df, <<>>, ufgd_rows), hu_rows)

\* A cell read lets an exception out of process_sheet_dual.
sheet_raises(df) == \E row \in ufgd_rows \cup hu_rows : row_raises(df, row)

\* No list is returned when process_sheet_dual raises.
NoRows == [ufgd |-> <<>>, hu |-> <<>>]

\* What the sheet loops make of a sheet: the outcome of process_sheet_dual
\* (the exception or the two lists, with the rows they came from) and of
\* texte.py's process_sheet.
dual_outcome(df, raises) ==
    [raises      |-> raises,
     rows        |-> IF raises THEN NoRows ELSE process_sheet_dual(df),
     ufgd_places |-> IF raises THEN <<>> ELSE scan_places(df, ufgd_rows),
     hu_places   |-> IF raises THEN <<>> ELSE scan_places(df, hu_rows)]

texte_outcome(df, raises) ==
    [raises |-> raises,
     rows   |-> IF raises THEN <<>> ELSE texte_process_sheet(df)]

sheet_outcome(df) ==
    [dual  |-> dual_outcome(df, sheet_raises(df)),
     texte |-> texte_outcome(df, row_raises(df, 13))]

\* The outcome for each sheet a workbook can hold
outcomes == [kind \in SheetKinds |-> sheet_outcome(SheetGrid(kind))]

\* ------------------------------------------------------------------------
\* State
\* ------------------------------------------------------------------------

VARIABLES
    variant,          \* "dual" (app.py) or "single" (texte.py): the program run
    ods_path,         \* App.ods_path
    pending,          \* callbacks scheduled by after(50, ...) and not yet run
    pc,               \* position of the running handler; "idle" in the event loop
    xls,              \* sheet names of the opened workbook
    si,               \* position of the sheet loop in xls
    all_rows,         \* build_tables_and_counts_dual's accumulators
    details,          \* (todas_linhas of texte.py is held in all_rows)
    all_ufgd,
    all_hu,
    result,           \* what the pipeline returned, None before it returns
    exc,              \* the exception being propagated, None when there is none
    tree,             \* rows of the results Treeview
    lbl_status,
    btn_browse,       \* style and state of the select button
    btn_abrir_pasta,  \* state of the "open output folder" button
    btn_process,      \* state of texte.py's "Processar" button
    dialog,           \* the last message box shown in this run
    disk,             \* which output files exist
    writes,           \* writes of each output file in the current run
    sheets_read,      \* sheets loaded in the current run
    src_ufgd,         \* for each record of all_ufgd / all_hu, the
    src_hu,           \* <<sheet, row>> whose scan appended it
    selects,          \* file selections so far
    clicks,           \* clicks on "Processar" so far
    failures,         \* runs that ended in the except branch so far
    outcome           \* how the last finished run ended

vars ==
    <<variant, ods_path, pending, pc, xls, si, all_rows, details, all_ufgd,
      all_hu, result, exc, tree, lbl_status, btn_browse, btn_abrir_pasta,
      btn_process, dialog, disk, writes, sheets_read, src_ufgd, src_hu,
      selects, clicks, failures, outcome>>

\* The accumulators of the sheet loop
tables == <<all_rows, details, all_ufgd, all_hu, src_ufgd, src_hu>>

ui == <<tree, lbl_status, btn_browse, btn_abrir_pasta, btn_process, dialog>>

session == <<variant, ods_path, pending, selects, clicks, failures, outcome>>

OutputNames == {"UFGD", "HU", "resultado"}

Init ==
    /\ variant \in {"dual", "single"}
    /\ ods_path = NoPath
    /\ pending = 0
    /\ pc = "idle"
    /\ xls = <<>> /\ si = 0
    /\ all_rows = <<>> /\ details = <<>> /\ all_ufgd = <<>> /\ all_hu = <<>>
    /\ result = None
    /\ exc = None
    /\ tree = <<>>
    /\ lbl_status = [kind |-> IF variant = "dual" THEN "nenhum" ELSE "vazio"]
    /\ btn_browse = [style |-> "Primary", state |-> "normal"]
    /\ btn_abrir_pasta = "disabled"
    /\ btn_process = "disabled"
    /\ dialog = "none"
    /\ disk = [f \in OutputNames |-> FALSE]
    /\ writes = [f \in OutputNames |-> 0]
    /\ sheets_read = 0
    /\ src_ufgd = <<>> /\ src_hu = <<>>
    /\ selects = 0 /\ clicks = 0 /\ failures = 0
    /\ outcome = "none"

\* ------------------------------------------------------------------------
\* Exceptions
\* ------------------------------------------------------------------------

\* raise FileNotFoundError(...)
FileNotFound == [type |-> "FileNotFoundError", cause |-> "none", guidance |-> "none"]

\* What pd.ExcelFile raises on a file it cannot parse.
ReaderError == [type |-> "ReaderError", cause |-> "none", guidance |-> "none"]

\* What pd.ExcelWriter raises when the destination cannot be written.
WriteError == [type |-> "OSError", cause |-> "none", guidance |-> "none"]

\* What an uncaught failure of a cell read raises.
CellError == [type |-> "IndexError", cause |-> "none", guidance |-> "none"]

\* The locals of a run are dropped when the handler returns.
DropLocals ==
    /\ xls' = <<>> /\ si' = 0
    /\ all_rows' = <<>> /\ details' = <<>> /\ all_ufgd' = <<>> /\ all_hu' = <<>>
    /\ result' = None /\ exc' = None
    /\ src_ufgd' = <<>> /\ src_hu' = <<>>

\* ------------------------------------------------------------------------
\* The Workbook Pipeline: build_tables_and_counts_dual of app.py and
\* build_table_from_ods of texte.py start with the same two steps
\* ------------------------------------------------------------------------

\* What the pipeline does with the path before it opens it.
exists_step == IF path_exists(ods_path) THEN "open" ELSE "except"

\* if not os.path.exists(file_path): raise FileNotFoundError
check_exists ==
    /\ pc = "exists"
    /\ pc' = exists_step
    /\ exc' = IF exists_step = "except" THEN FileNotFound ELSE exc
    /\ UNCHANGED <<session, ui, disk, writes, sheets_read, xls, si, tables, result>>

\* The except clause of pd.ExcelFile with a bare raise
open_error_reraised(e) == e

\* raise RuntimeError("Falha ao abrir .ods. Instale: pip install odfpy ...")
\* from e
open_error(e) ==
    [type |-> "RuntimeError", cause |-> e.type, guidance |-> "odfpy"]

\* try: xls = pd.ExcelFile(...) except Exception as e: raise RuntimeError
\* from e; then the empty accumulators and the first turn of the sheet loop.
open_workbook ==
    /\ pc = "open"
    /\ IF reader_opens(ods_path)
       THEN /\ xls' = [i \in 1..Len(ods_path.sheets) |-> i]
            /\ si' = 1
            /\ pc' = IF Len(ods_path.sheets) = 0 THEN "frames" ELSE "read"
            /\ exc' = exc
       ELSE /\ pc' = "except" /\ exc' = open_error(ReaderError)
            /\ UNCHANGED <<xls, si>>
    /\ all_rows' = <<>> /\ details' = <<>> /\ all_ufgd' = <<>> /\ all_hu' = <<>>
    /\ src_ufgd' = <<>> /\ src_hu' = <<>>
    /\ UNCHANGED <<session, ui, disk, writes, sheets_read, result>>

\* ------------------------------------------------------------------------
\* app.py: the handlers of the dual-output window
\* ------------------------------------------------------------------------

\* escolher_arquivo without the configure of btn_abrir_pasta
escolher_arquivo_keeping(p) ==
    /\ variant = "dual" /\ pc = "idle" /\ selects < MaxSelects
    /\ btn_browse.state = "normal"
    /\ ods_path' = p
    /\ btn_browse' = [btn_browse EXCEPT !.style = "Primary"]
    /\ lbl_status' = [kind |-> "Processando"]
    /\ tree' = <<>>
    /\ pending' = pending + 1
    /\ selects' = selects + 1
    /\ UNCHANGED <<variant, pc, xls, si, tables, result, exc, btn_process,
                   btn_abrir_pasta, dialog, disk, writes, sheets_read, clicks,
                   failures, outcome>>

\* App.escolher_arquivo with the dialog answered by path p.
escolher_arquivo(p) ==
    /\ variant = "dual" /\ pc = "idle" /\ selects < MaxSelects
    /\ btn_browse.state = "normal"
    /\ ods_path' = p
    /\ btn_browse' = [btn_browse EXCEPT !.style = "Primary"]
    /\ btn_abrir_pasta' = "disabled"
    /\ lbl_status' = [kind |-> "Processando"]
    /\ tree' = <<>>
    /\ pending' = pending + 1
    /\ selects' = selects + 1
    /\ UNCHANGED <<variant, pc, xls, si, tables, result, exc, btn_process,
                   dialog, disk, writes, sheets_read, clicks, failures, outcome>>

\* The event loop runs one scheduled App.processar_automatico, which calls
\* build_tables_and_counts_dual.
processar_automatico ==
    /\ variant = "dual" /\ pc = "idle" /\ pending > 0
    /\ pending' = pending - 1
    /\ pc' = "exists"
    /\ dialog' = "none"
    /\ writes' = [f \in OutputNames |-> 0]
    /\ sheets_read' = 0
    /\ UNCHANGED <<variant, ods_path, xls, si, tables, result, exc, tree,
                   lbl_status, btn_browse, btn_abrir_pasta, btn_process, disk,
                   selects, clicks, failures, outcome>>

\* The count of one partition only
sheet_count_ufgd_only(ufgd, hu) == Len(ufgd)

\* len(ufgd_rows) + len(hu_rows)
sheet_count(ufgd, hu) == Len(ufgd) + Len(hu)

\* The <<sheet, row>> places of the records a sheet contributed
places_of(name, rows) == [i \in 1..Len(rows) |-> <<name, rows[i]>>]

\* The turn of the loop for sheet `name`, whose processing gives o:
\* details.append((name, ...)) and the four extends, then the next turn.
turn_dual(name, o) ==
    IF o.raises
    THEN /\ pc' = "except" /\ exc' = CellError
         /\ UNCHANGED <<si, tables>>
    ELSE /\ details' = Append(details, <<name, sheet_count(o.rows.ufgd, o.rows.hu)>>)
         /\ all_rows' = all_rows \o o.rows.ufgd \o o.rows.hu
         /\ all_ufgd' = all_ufgd \o o.rows.ufgd
         /\ all_hu' = all_hu \o o.rows.hu
         /\ src_ufgd' = src_ufgd \o places_of(name, o.ufgd_places)
         /\ src_hu' = src_hu \o places_of(name, o.hu_places)
         /\ si' = si + 1
         /\ pc' = IF si = Len(xls) THEN "frames" ELSE "read"
         /\ exc' = exc

\* One turn of the sheet loop of build_tables_and_counts_dual: read the
\* sheet, process_sheet_dual, details.append and the four extends.
sheet_turn_dual ==
    /\ variant = "dual" /\ pc = "read"
    /\ sheets_read' = sheets_read + 1
    /\ turn_dual(xls[si], outcomes[read_excel(ods_path, xls[si]).kind].dual)
    /\ UNCHANGED <<session, ui, disk, writes, xls, result>>

\* build_tables_and_counts_dual returns (df_total, details, df_ufgd, df_hu).
return_tables_dual ==
    /\ variant = "dual" /\ pc = "frames"
    /\ result' = [df_total |-> all_rows, details |-> details,
                  df_ufgd |-> all_ufgd, df_hu |-> all_hu]
    /\ pc' = "save1"
    /\ UNCHANGED <<session, ui, disk, writes, sheets_read, xls, si, tables, exc>>

\* The exception salvar_excel_as lets out when the writer fails with e:
\* there is no try around pd.ExcelWriter.
salvar_excel_as_error(e) == e

\* salvar_excel_as(df, origem, basename): the destination is written, or
\* pd.ExcelWriter raises.
salvar_excel_as(basename, next) ==
    \E writable \in BOOLEAN :
        /\ IF writable
           THEN /\ disk' = [disk EXCEPT ![basename] = TRUE]
                /\ writes' = [writes EXCEPT ![basename] = @ + 1]
                /\ pc' = next /\ exc' = exc
           ELSE /\ pc' = "except" /\ exc' = salvar_excel_as_error(WriteError)
                /\ UNCHANGED <<disk, writes>>
        /\ UNCHANGED <<session, ui, sheets_read, xls, si, tables, result>>

\* processar_automatico: xlsx1 = salvar_excel_as(df_ufgd, ...)
save_ufgd == variant = "dual" /\ pc = "save1" /\ salvar_excel_as("UFGD", "save2")

\* processar_automatico without the second salvar_excel_as
save_hu_skipped ==
    /\ variant = "dual" /\ pc = "save2"
    /\ pc' = "show"
    /\ UNCHANGED <<session, ui, disk, writes, sheets_read, xls, si, tables,
                   result, exc>>

\* processar_automatico: xlsx2 = salvar_excel_as(df_hu, ...)
save_hu == variant = "dual" /\ pc = "save2" /\ salvar_excel_as("HU", "show")

\* The rows processar_automatico inserts in the Treeview.
tree_rows(ds) ==
    [i \in 1..Len(ds) |->
        [arquivo |-> ods_path, planilha |-> ds[i][1], linhas |-> ds[i][2]]]

\* processar_automatico: the end of the try block.
show_result ==
    /\ variant = "dual" /\ pc = "show"
    /\ tree' = tree \o tree_rows(result.details)
    /\ lbl_status' = [kind |-> "Caminho"]
    /\ btn_browse' = [btn_browse EXCEPT !.style = "Muted"]
    /\ btn_abrir_pasta' = "normal"
    /\ outcome' = "ok"
    /\ pc' = "idle"
    /\ DropLocals
    /\ UNCHANGED <<variant, ods_path, pending, selects, clicks, failures,
                   btn_process, dialog, disk, writes, sheets_read>>

\* An except branch that disables the select button
handle_error_disabling ==
    /\ variant = "dual" /\ pc = "except"
    /\ dialog' = "showerror"
    /\ lbl_status' = [kind |-> "Erro", e |-> exc]
    /\ btn_browse' = [btn_browse EXCEPT !.state = "disabled"]
    /\ btn_abrir_pasta' = "disabled"
    /\ outcome' = "failed"
    /\ failures' = failures + 1
    /\ pc' = "idle"
    /\ DropLocals
    /\ UNCHANGED <<variant, ods_path, pending, selects, clicks, tree,
                   btn_process, disk, writes, sheets_read>>

\* processar_automatico: except Exception as e
handle_error ==
    /\ variant = "dual" /\ pc = "except"
    /\ dialog' = "showerror"
    /\ lbl_status' = [kind |-> "Erro", e |-> exc]
    /\ btn_browse' = [btn_browse EXCEPT !.style = "Primary"]
    /\ btn_abrir_pasta' = "disabled"
    /\ outcome' = "failed"
    /\ failures' = failures + 1
    /\ pc' = "idle"
    /\ DropLocals
    /\ UNCHANGED <<variant, ods_path, pending, selects, clicks, tree,
                   btn_process, disk, writes, sheets_read>>

\* ------------------------------------------------------------------------
\* texte.py: the handlers of the single-output window
\* ------------------------------------------------------------------------

\* App.escolher_arquivo with the dialog answered by path p.
texte_escolher_arquivo(p) ==
    /\ variant = "single" /\ pc = "idle" /\ selects < MaxSelects
    /\ btn_browse.state = "normal"
    /\ ods_path' = p
    /\ btn_process' = "normal"
    /\ lbl_status' = [kind |-> "selecionado"]
    /\ selects' = selects + 1
    /\ UNCHANGED <<variant, pending, pc, xls, si, tables, result, exc, tree,
                   btn_browse, btn_abrir_pasta, dialog, disk, writes,
                   sheets_read, clicks, failures, outcome>>

\* App.processar, up to the call of build_table_from_ods.  The button is
\* disabled until a file is chosen, so ods_path is set.
texte_processar ==
    /\ variant = "single" /\ pc = "idle" /\ btn_process = "normal"
    /\ clicks < MaxClicks
    /\ clicks' = clicks + 1
    /\ lbl_status' = [kind |-> "Processando"]
    /\ pc' = "exists"
    /\ dialog' = "none"
    /\ writes' = [f \in OutputNames |-> 0]
    /\ sheets_read' = 0
    /\ UNCHANGED <<variant, ods_path, pending, xls, si, tables, result, exc,
                   tree, btn_browse, btn_abrir_pasta, btn_process, disk,
                   selects, failures, outcome>>

texte_turn(o) ==
    IF o.raises
    THEN /\ pc' = "except" /\ exc' = CellError
         /\ UNCHANGED <<all_rows, si>>
    ELSE /\ all_rows' = all_rows \o o.rows
         /\ si' = si + 1
         /\ pc' = IF si = Len(xls) THEN "frames" ELSE "read"
         /\ exc' = exc

\* build_table_from_ods: one turn of the sheet loop,
\* todas_linhas.extend(process_sheet(df)).
texte_sheet_turn ==
    /\ variant = "single" /\ pc = "read"
    /\ sheets_read' = sheets_read + 1
    /\ texte_turn(outcomes[read_excel(ods_path, xls[si]).kind].texte)
    /\ UNCHANGED <<session, ui, disk, writes, xls, details, all_ufgd, all_hu,
                   src_ufgd, src_hu, result>>

\* build_table_from_ods returns the DataFrame.
texte_return_table ==
    /\ variant = "single" /\ pc = "frames"
    /\ result' = [df |-> all_rows]
    /\ pc' = "save1"
    /\ UNCHANGED <<session, ui, disk, writes, sheets_read, xls, si, tables, exc>>

\* The exception salvar_excel raises when the writer fails with e:
\* raise RuntimeError("Falha ao salvar XLSX ... pip install openpyxl") from e
salvar_excel_error(e) ==
    [type |-> "RuntimeError", cause |-> e.type, guidance |-> "openpyxl"]

\* pd.to_numeric(df["valor"], errors="coerce").abs() on a column of floats
to_numeric_abs(df) ==
    [i \in 1..Len(df) |-> [df[i] EXCEPT !.valor = AbsValue(df[i].valor)]]

\* salvar_excel(df, origem)
texte_salvar_excel ==
    /\ variant = "single" /\ pc = "save1"
    /\ \E writable \in BOOLEAN :
        IF writable
        THEN /\ disk' = [disk EXCEPT !["resultado"] = TRUE]
             /\ writes' = [writes EXCEPT !["resultado"] = @ + 1]
             /\ pc' = "show" /\ exc' = exc
        ELSE /\ pc' = "except" /\ exc' = salvar_excel_error(WriteError)
             /\ UNCHANGED <<disk, writes>>
    /\ result' = [df |-> to_numeric_abs(result.df)]
    /\ UNCHANGED <<session, ui, sheets_read, xls, si, tables>>

\* App.processar: the end of the try block.
texte_show_result ==
    /\ variant = "single" /\ pc = "show"
    /\ lbl_status' = [kind |-> "concluido", linhas |-> Len(result.df)]
    /\ btn_abrir_pasta' = "normal"
    /\ dialog' = "showinfo"
    /\ outcome' = "ok"
    /\ pc' = "idle"
    /\ DropLocals
    /\ UNCHANGED <<variant, ods_path, pending, selects, clicks, failures,
                   tree, btn_browse, btn_process, disk, writes, sheets_read>>

\* App.processar: except Exception as e
texte_handle_error ==
    /\ variant = "single" /\ pc = "except"
    /\ dialog' = "showerror"
    /\ lbl_status' = [kind |-> "Erro", e |-> exc]
    /\ outcome' = "failed"
    /\ failures' = failures + 1
    /\ pc' = "idle"
    /\ DropLocals
    /\ UNCHANGED <<variant, ods_path, pending, selects, clicks, tree,
                   btn_browse, btn_abrir_pasta, btn_process, disk, writes,
                   sheets_read>>

\* ------------------------------------------------------------------------
\* Specification
\* ------------------------------------------------------------------------

Next ==
    \/ \E p \in Files : escolher_arquivo(p)
    \/ processar_automatico
    \/ check_exists
    \/ open_workbook
    \/ sheet_turn_dual
    \/ return_tables_dual
    \/ save_ufgd
    \/ save_hu
    \/ show_result
    \/ handle_error
    \/ \E p \in Files : texte_escolher_arquivo(p)
    \/ texte_processar
    \/ texte_sheet_turn
    \/ texte_return_table
    \/ texte_salvar_excel
    \/ texte_show_result
    \/ texte_handle_error

Spec == Init /\ [][Next]_vars

\* ------------------------------------------------------------------------
\* Properties of the Row Evaluator and of the Sheet Processor
\* ------------------------------------------------------------------------

\* Blank, for an identity cell: absent, an empty cell of the grid, or text
\* that is empty once trimmed.
blank(x) == x = None \/ x = NaN \/ (x.k = "text" /\ strip(x.s) = <<>>)

\* A finite number, strictly positive, with two decimals
positive_amount(x) == x.k = "num" /\ x.v > 0 /\ x.v % (Scale \div 100) = 0

\* The inclusion rule, on a record
included(rec) ==
    /\ ~ (blank(rec.A13) /\ blank(rec.B13))
    /\ positive_amount(rec.valor)

table_included(table) == \A i \in 1..Len(table) : included(table[i])

\* C1: in the dual-output variant a row whose identity cells A and B are
\* both blank gives no record, so every record of the UFGD and HU tables has
\* a non-blank identity field and a valor that is a finite number greater
\* than zero, rounded to two decimals.
C1_BlankIdentityGivesNoRecord ==
    table_included(all_ufgd) /\ table_included(all_hu)

\* The value columns of a row with cells c whose amount is present, in
\* J, N, S order
present_columns(c) ==
    SelectSeq(ValueColumns, LAMBDA col : to_amount(c[col]) # None)

\* One record per column of cols, alike but for valor
records_of(c, cols) ==
    [i \in 1..Len(cols) |->
        [A13 |-> c.a, B13 |-> c.b, MES_ANO |-> c.mes_ano, rubrica |-> "00001",
         rendimento |-> "r", sequencia |-> c.seq,
         valor |-> to_amount(c[cols[i]]),
         justificativa |-> c.just, documento_legal |-> c.doc]]

\* On a row with a non-blank identity cell, read without an exception,
\* append_rows_for leaves out as it is and appends the k records of the
\* present amounts.
appends_k_records(df, out, rownum, c) ==
    \/ cells_raise(c)
    \/ blank(c.a) /\ blank(c.b)
    \/ append_rows_for(df, out, rownum) = out \o records_of(c, present_columns(c))

\* A list that already holds a record
held == <<Record(Doe, None, None, None, Num(Scale), None, None)>>

row_appends_k(df, rownum) ==
    \A out \in {<<>>, held} : appends_k_records(df, out, rownum, RowCells(df, rownum))

\* For each sheet, whether every scanned row is appended as C2 states.
rows_append_k ==
    [kind \in SheetKinds |->
        \A rownum \in ufgd_rows \cup hu_rows : row_appends_k(SheetGrid(kind), rownum)]

\* The sheets the running pipeline has processed so far
processed == {ods_path.sheets[xls[i]] : i \in 1..Len(details)}

\* C2: for every data row with a non-blank identity cell, append_rows_for
\* appends exactly k records, k the number of columns among J, N, S whose
\* amount is present; they come in J, N, S order, carry the row's A/B
\* identity, the sheet's C5/C6/C9/C10, rubrica "00001" and rendimento "r",
\* and differ only in valor; the records already in the list stay as they
\* are.
C2_OneRecordPerPresentAmount ==
    variant = "dual" => \A kind \in processed : rows_append_k[kind]

\* Three records in a row of the UFGD table that came from one data row with
\* a non-blank identity cell: J, N and S all present.
C2_ThreeAmountsWitness ==
    \E i \in 1..Len(all_ufgd) :
        /\ i + 2 <= Len(all_ufgd)
        /\ src_ufgd[i] = src_ufgd[i + 1] /\ src_ufgd[i] = src_ufgd[i + 2]
        /\ ~ blank(all_ufgd[i].A13)
        /\ all_ufgd[i].valor # all_ufgd[i + 1].valor
        /\ all_ufgd[i + 1].valor # all_ufgd[i + 2].valor

\* C3: every record of the UFGD table comes from a row in 13..63 and every
\* record of the HU table from a row in 71..121, no row gives records to
\* both, rows outside the two ranges give none, and each table satisfies
\* the inclusion rule.
C3_PartitionsByRowRange ==
    /\ \A i \in 1..Len(src_ufgd) : src_ufgd[i][2] \in 13..63
    /\ \A i \in 1..Len(src_hu) : src_hu[i][2] \in 71..121
    /\ {src_ufgd[i] : i \in 1..Len(src_ufgd)}
          \cap {src_hu[i] : i \in 1..Len(src_hu)} = {}
    /\ Len(src_ufgd) = Len(all_ufgd) /\ Len(src_hu) = Len(all_hu)
    /\ table_included(all_ufgd)
    /\ table_included(all_hu)

\* Each record of small is a record of big.
each_in(small, big) ==
    \A i \in 1..Len(small) : \E j \in 1..Len(big) : big[j] = small[i]

\* For each sheet, whether the records of texte.py's process_sheet are
\* among those of app.py's process_sheet_dual.
subsumed ==
    [kind \in SheetKinds |->
        each_in(outcomes[kind].texte.rows,
                outcomes[kind].dual.rows.ufgd \o outcomes[kind].dual.rows.hu)]

\* The sheets texte.py's running pipeline has processed so far
texte_processed == {ods_path.sheets[xls[i]] : i \in 1..(si - 1)}

\* C4: for every sheet, each record texte.py's process_sheet gives (row 13,
\* columns J and N) is given, with the same nine field values, by app.py's
\* processing of the same sheet.
C4_GeneralSubsumesSimple ==
    variant = "single" => \A kind \in texte_processed : subsumed[kind]

\* ------------------------------------------------------------------------
\* Properties of the Workbook Pipeline and of the Table Writer
\* ------------------------------------------------------------------------

\* C5: the pipeline checks the path first: a missing file fails with
\* FileNotFoundError, a file the reader cannot open fails with a
\* RuntimeError that wraps the reader's error; in both cases no sheet has
\* been read and the run returns no table and no (sheet, count) list.
C5_PathCheckedBeforeAnySheet ==
    /\ (pc = "except" /\ ~ path_exists(ods_path)) => exc = FileNotFound
    /\ (pc = "except" /\ path_exists(ods_path) /\ ~ reader_opens(ods_path))
          => /\ exc.type = "RuntimeError"
             /\ exc.cause = ReaderError.type
    /\ (pc # "idle" /\ ~ reader_opens(ods_path))
          => /\ pc \in {"exists", "open", "except"}
             /\ sheets_read = 0 /\ xls = <<>>
             /\ result = None /\ details = <<>>
    /\ (pc \notin {"idle", "exists"} /\ ~ path_exists(ods_path)) => pc = "except"

\* A run failed on a missing file and the next one, on a file the reader
\* cannot open, is in its except branch.
C5_BothFailuresWitness ==
    /\ failures > 0
    /\ pc = "except" /\ exc.type = "RuntimeError" /\ exc.cause = ReaderError.type
    /\ path_exists(ods_path)
    /\ sheets_read = 0 /\ result = None

\* C6: when the destination cannot be written the writer of either variant
\* fails with an error that wraps the I/O failure and carries the guidance
\* about the writer dependency.
C6_WriteFailureWrapped ==
    (pc = "except" /\ result # None)
        => /\ exc.type = "RuntimeError"
           /\ exc.cause = WriteError.type
           /\ exc.guidance = "openpyxl"

\* The value cells of row rownum that the grid holds and that parse to a
\* number
parsed_cells(df, rownum) ==
    {col \in {colJ, colN, colS} :
        /\ rownum <= df.rows /\ col < df.cols
        /\ parse_br_number(Stored(df, rownum - 1, col)) \notin {None, NaN}}

\* The records of a list with places src that came from row rownum
from_row(src, rownum) == {i \in 1..Len(src) : src[i] = rownum}

\* Processing of the sheet gave o without raising; a row gave at most one
\* record per value cell that is in the grid and parses.
degrades(df, o) ==
    /\ ~ o.raises
    /\ \A rownum \in ufgd_rows :
          Cardinality(from_row(o.ufgd_places, rownum))
              <= Cardinality(parsed_cells(df, rownum))
    /\ \A rownum \in hu_rows :
          Cardinality(from_row(o.hu_places, rownum))
              <= Cardinality(parsed_cells(df, rownum))

tolerant == [kind \in SheetKinds |-> degrades(SheetGrid(kind), outcomes[kind].dual)]

\* C7: whatever the size of the grid and the content of its cells,
\* processing a sheet over all the configured rows does not raise: a read
\* outside the grid and a value that does not parse give absent, which
\* counts as no amount.
C7_CellFailuresDegradeToAbsent ==
    /\ pc = "except" => exc # CellError
    /\ variant = "dual" => \A kind \in processed : tolerant[kind]

\* A workbook whose sheets end before row 121 and column S, or hold no cell
\* at all, has been processed to the end.
C7_SmallGridsWitness ==
    /\ variant = "dual" /\ pc = "frames"
    /\ processed = {"short", "empty"}
    /\ Len(all_ufgd) > 0

\* ------------------------------------------------------------------------
\* Properties of a session
\* ------------------------------------------------------------------------

\* The select control is enabled, and so is texte.py's run control once a
\* file has been chosen.
controls_enabled ==
    /\ btn_browse.state = "normal"
    /\ (variant = "single" /\ selects > 0) => btn_process = "normal"

\* The except branch: the failure is shown in a message box and in the
\* status line, and the handler returns to the event loop.
failure_shown ==
    /\ pc' = "idle"
    /\ dialog' = "showerror"
    /\ lbl_status' = [kind |-> "Erro", e |-> exc]
    /\ failures' = failures + 1

\* C8: a failure of a run, of the pipeline or of a write, is caught at the
\* UI boundary, shown as a message and as the inline status, and the
\* application goes on running with its select and run controls enabled, so
\* that another file can be selected and processed.
C8_FailureLeavesTheUiUsable ==
    [][/\ pc = "except" => failure_shown
       /\ failures' > 0 => controls_enabled']_vars

\* A run has failed and a later run has gone through to its end.
C8_SuccessAfterFailureWitness ==
    /\ failures > 0 /\ outcome = "ok" /\ pc = "idle"
    /\ controls_enabled
    /\ \A f \in OutputNames : writes[f] > 0 => disk[f]

\* The output files of the variant that runs
partitions == IF variant = "dual" THEN {"UFGD", "HU"} ELSE {"resultado"}

\* A file is written only once every sheet has been processed, and not
\* twice in a run.
written_after_the_sheets ==
    \A f \in partitions :
        writes[f] > 0 =>
            /\ writes[f] = 1
            /\ pc \in {"save2", "show", "except", "idle"}
            /\ pc # "idle" => result # None /\ si = Len(xls) + 1

\* A run that succeeds has written each file once.
written_once_on_success ==
    (pc = "show" \/ (pc = "idle" /\ outcome = "ok"))
        => \A f \in partitions : writes[f] = 1

\* A run whose pipeline fails writes nothing.
nothing_written_on_pipeline_failure ==
    (pc = "except" /\ result = None) => \A f \in partitions : writes[f] = 0

\* C9, as claimed: files are written only after every sheet has been
\* processed, each partition's file once per successful run, none when the
\* pipeline fails, and no run leaves only part of the partitions written.
C9_NeverPartOfThePartitions ==
    /\ written_after_the_sheets
    /\ written_once_on_success
    /\ nothing_written_on_pipeline_failure
    /\ pc \in {"idle", "except"} =>
          \A f, g \in partitions : writes[f] = writes[g]

\* C9, amended: files are written only after every sheet has been
\* processed, each at most once per run and each once in a successful run;
\* a run whose pipeline fails writes none; a run leaves only part of the
\* partitions written exactly when the first file was written and the write
\* of the second failed.
C9_PartialOnlyWhenSecondWriteFails ==
    /\ written_after_the_sheets
    /\ written_once_on_success
    /\ nothing_written_on_pipeline_failure
    /\ (pc = "except" /\ \E f, g \in partitions : writes[f] # writes[g])
          => /\ writes["UFGD"] = 1 /\ writes["HU"] = 0
             /\ result # None /\ exc = salvar_excel_as_error(WriteError)
    /\ (pc = "except" /\ variant = "dual" /\ result # None /\ writes["UFGD"] = 1)
          => writes["HU"] = 0

\* The first file is written and the write of the second has failed.
C9_SecondWriteFailedWitness ==
    /\ variant = "dual" /\ pc = "except"
    /\ writes["UFGD"] = 1 /\ writes["HU"] = 0
    /\ disk["UFGD"]

\* Records of a list with places src that came from sheet name
count_from(src, name) == Cardinality({i \in 1..Len(src) : src[i][1] = name})

RECURSIVE sum_counts(_)
sum_counts(ds) == IF ds = <<>> THEN 0 ELSE Head(ds)[2] + sum_counts(Tail(ds))

\* C10: the pipeline returns one (sheet name, count) pair per sheet, in
\* sheet order, the count being the records the sheet gave to both
\* partitions (0 for a sheet that gave none); the counts add up to the rows
\* of the UFGD table plus the rows of the HU table, which is the number of
\* rows of the combined table.
C10_OneCountPerSheet ==
    variant = "dual" =>
        /\ Len(details) <= Len(xls)
        /\ \A i \in 1..Len(details) :
              /\ details[i][1] = xls[i]
              /\ details[i][2] = count_from(src_ufgd, xls[i]) + count_from(src_hu, xls[i])
        /\ sum_counts(details) = Len(all_ufgd) + Len(all_hu)
        /\ sum_counts(details) = Len(all_rows)
        /\ result # None =>
              /\ Len(result.details) = Len(xls)
              /\ result.details = details
              /\ sum_counts(result.details) = Len(result.df_ufgd) + Len(result.df_hu)
              /\ sum_counts(result.details) = Len(result.df_total)

\* The pipeline has returned the pairs of a workbook of two sheets, one that
\* gave no record and one that gave records to both partitions.
C10_TwoSheetsWitness ==
    /\ variant = "dual" /\ result # None
    /\ Len(result.details) = 2
    /\ result.details[1][2] = 0 /\ result.details[2][2] > 0
    /\ Len(result.df_ufgd) > 0 /\ Len(result.df_hu) > 0

\* ------------------------------------------------------------------------
\* Properties of "to positive amount" and of the Number Parser
\* ------------------------------------------------------------------------

\* The absolute value of a parsed number rounded to two decimals; that of
\* nan is nan.
rounded_abs(f) == IF f = NaN THEN NaN ELSE Num(round2(Abs(f.v)))

\* The amount of a parsed f: absent when f is absent or rounds to exactly
\* zero, the rounded absolute value otherwise.
amount_as_claimed(f) ==
    IF f = None THEN None
    ELSE IF rounded_abs(f) = Num(0) THEN None
    ELSE rounded_abs(f)

\* The same, absent as well when f is nan.
amount_as_amended(f) ==
    IF f = None \/ f = NaN THEN None ELSE amount_as_claimed(f)

\* to_amount of the examples: 0, -0.004, -0.0049, -0.005 and -12.345
examples_hold ==
    /\ to_amount(Num(0)) = None
    /\ to_amount(Num(0 - Dec(0, 4, 3))) = None
    /\ to_amount(Num(0 - Dec(0, 49, 4))) = None
    /\ to_amount(Num(0 - Dec(0, 5, 3))) = Num(Dec(0, 1, 2))
    /\ to_amount(Num(0 - Dec(12, 345, 3))) = Num(Dec(12, 35, 2))

\* Never zero, never negative
positive_or_absent(x) == x = None \/ x = NaN \/ x.v > 0

\* The value cells of the scanned rows of a sheet, as get_cell returns them
value_cells(df) ==
    {get_cell(df, <<ValueColumns[i]>>, rownum) :
        i \in 1..Len(ValueColumns), rownum \in ufgd_rows \cup hu_rows}

\* For each sheet, the value cells whose amount is not the claimed one
not_as_claimed ==
    [kind \in SheetKinds |->
        {v \in value_cells(SheetGrid(kind)) :
            ~ IsExc(v) /\ to_amount(v) # amount_as_claimed(parse_br_number(v))}]

\* For each sheet, the value cells whose amount is not the amended one, or
\* is zero or negative
not_as_amended ==
    [kind \in SheetKinds |->
        {v \in value_cells(SheetGrid(kind)) :
            /\ ~ IsExc(v)
            /\ \/ to_amount(v) # amount_as_amended(parse_br_number(v))
               \/ ~ positive_or_absent(to_amount(v))}]

\* C11, as claimed: to_amount is absent when the parser gives absent or
\* the absolute value rounded to two decimals is exactly zero, and is that
\* rounded absolute value otherwise; 0, -0.004 and -0.0049 give absent,
\* -0.005 gives 0.01, -12.345 gives 12.35.
C11_AmountOfEveryParsedValue ==
    /\ examples_hold
    /\ variant = "dual" => \A kind \in processed : not_as_claimed[kind] = {}

\* C11, amended: to_amount is absent when the parser gives absent or nan
\* (an empty cell), or when the absolute value rounded to two decimals is
\* exactly zero, and is that rounded absolute value otherwise; the examples
\* hold, and the result is never zero and never negative.
C11_AmountAbsentForNan ==
    /\ examples_hold
    /\ variant = "dual" => \A kind \in processed : not_as_amended[kind] = {}

\* A processed sheet gave, for J13 = -12.345 and N13 = 0.004, the one
\* record of 12.35.
C11_RoundedAmountWitness ==
    /\ variant = "dual" /\ "dense" \in processed
    /\ \E i \in 1..Len(all_ufgd) :
          /\ src_ufgd[i][2] = 13 /\ all_ufgd[i].valor = Num(Dec(12, 35, 2))
          /\ (i < Len(all_ufgd) => src_ufgd[i + 1][2] # 13)

\* s without its minus signs
without_minus(s) == SelectSeq(s, LAMBDA ch : ch # "-")

\* Of the digits, points and minus signs of s, the digits, the points and
\* a minus sign that leads.
leading_minus_only(s) ==
    IF s # <<>> /\ Head(s) = "-" THEN <<"-">> \o without_minus(Tail(s))
    ELSE without_minus(s)

\* The removals of the rules, in order: "R$" in either case, spaces and
\* non-breaking spaces, "%", every "."; then "," becomes ".".
cleaned(s) ==
    replace(replace(replace(replace(replace(replace(replace(s,
        <<"R", "$">>, <<>>), <<"r", "$">>, <<>>), <<" ">>, <<>>),
        <<"NBSP">>, <<>>), <<"%">>, <<>>), <<".">>, <<>>), <<",">>, <<".">>)

\* The number of the trimmed text s by the rules
number_by_rules(s) ==
    IF s = <<>> \/ lower(s) \in {<<"n", "a", "n">>, <<"n", "o", "n", "e">>}
    THEN None
    ELSE except_none(pyfloat(leading_minus_only(re_sub_keep(cleaned(s)))))

\* The texts among the value cells of a sheet that the parser does not
\* parse as the rules say
not_by_rules ==
    [kind \in SheetKinds |->
        {v \in value_cells(SheetGrid(kind)) :
            v.k = "text" /\ parse_br_number(v) # number_by_rules(strip(v.s))}]

\* C12: for every text the parser gives what the rules give, applied in
\* order: absent for a text that is empty once trimmed or is "nan"/"none";
\* "R$", spaces, non-breaking spaces, "%" and every "." removed; "," made
\* "."; every other character that is not a digit, a point or the single
\* leading minus sign discarded; then the number, absent on failure.  So
\* "1.234,56" is 1234.56, "R$ 50,00" is 50.0, "-10,5" is -10.5, and a minus
\* sign that does not lead is discarded.
C12_ParserFollowsTheRules ==
    /\ parse_br_number(Text(<<"1", ".", "2", "3", "4", ",", "5", "6">>))
          = Num(Dec(1234, 56, 2))
    /\ parse_br_number(Text(<<"R", "$", " ", "5", "0", ",", "0", "0">>))
          = Num(Dec(50, 0, 0))
    /\ parse_br_number(Text(<<"-", "1", "0", ",", "5">>)) = Num(0 - Dec(10, 5, 1))
    /\ variant = "dual" => \A kind \in processed : not_by_rules[kind] = {}

\* ------------------------------------------------------------------------
\* Properties of the dual-output window
\* ------------------------------------------------------------------------

\* The results display holds one row per sheet of the file p, in order.
one_row_per_sheet(p) ==
    /\ Len(tree) = Len(p.sheets)
    /\ \A i \in 1..Len(tree) : tree[i].arquivo = p /\ tree[i].planilha = i

\* C13: in the dual-output window, after any file selections and any
\* interleaving of the scheduled callbacks, once no callback is pending the
\* results display holds exactly one row per sheet of the file selected
\* last if its processing succeeded, and no row if it failed; never a row
\* of an earlier selection, never the same sheet twice.
C13_DisplayShowsTheLastSelection ==
    (variant = "dual" /\ pc = "idle" /\ pending = 0 /\ selects > 0)
        => IF outcome = "ok" THEN one_row_per_sheet(ods_path) ELSE tree = <<>>

\* The 'open output folder' button is enabled only after a run of the
\* selected file that went through, with both output files on disk.
enabled_after_success ==
    btn_abrir_pasta = "normal" =>
        /\ outcome = "ok"
        /\ disk["UFGD"] /\ disk["HU"]
        /\ selects > 0 /\ reader_opens(ods_path)

\* What a step does to the button: a selection and the end of a failed run
\* leave it disabled, and only the end of a run that wrote both files
\* enables it.
button_step ==
    /\ selects' # selects => btn_abrir_pasta' = "disabled"
    /\ pc = "except" => btn_abrir_pasta' = "disabled"
    /\ (btn_abrir_pasta = "disabled" /\ btn_abrir_pasta' = "normal")
          => /\ pc = "show" /\ pc' = "idle"
             /\ writes["UFGD"] = 1 /\ writes["HU"] = 1

\* C14: in the dual-output window the 'open output folder' button is
\* enabled only if a run of the selected file has gone through with both
\* output files written: it starts disabled, every selection disables it, it
\* stays disabled after a failed run and only the end of a successful run
\* enables it.
C14_FolderButtonOnlyAfterSuccess ==
    [][variant = "dual" =>
          /\ selects = 0 => btn_abrir_pasta = "disabled"
          /\ enabled_after_success /\ enabled_after_success'
          /\ button_step]_vars

\* The button is enabled at the end of the run of the second selection, the
\* run of the first having failed.
C14_EnabledAgainWitness ==
    /\ variant = "dual" /\ pc = "idle" /\ pending = 0
    /\ btn_abrir_pasta = "normal"
    /\ selects = 2 /\ failures = 1

====
